---- MODULE Spec2Model ----
(***************************************************************************)
(* JACVS certificate verifier (src/app.py): text normalisation, the        *)
(* per-page OCR loop, the multi-page combiner and the verification logic   *)
(* that turns the combined record and the CSV records into a verdict.      *)
(*                                                                         *)
(* Strings are sequences of one-character strings.  OCR confidences are    *)
(* exact fractions <<numerator, denominator>> (np.mean of integers), so    *)
(* that the comparisons avg < 70 and avg > 80 and the truncation           *)
(* int(avg) are computed on the exact mean.                                *)
(***************************************************************************)
EXTENDS Integers, Sequences, FiniteSets, TLC

\* ------------------------------------------------------------------ bounds
MaxLen == 3
MaxPages == 2

\* -------------------------------------------------------------- characters
UpperChars == {"A", "B", "C", "D", "H", "J"}
LowerChars == {"a", "b", "c", "d", "h", "j"}
DigitChars == {"1", "2", "7", "9"}
SpaceChars == {" "}

\* str.lower() on one character
LowerChar(c) ==
  CASE c = "A" -> "a" [] c = "B" -> "b" [] c = "C" -> "c"
    [] c = "D" -> "d" [] c = "H" -> "h" [] c = "J" -> "j"
    [] OTHER -> c

\* the regex class \w of a str pattern: letters, digits and the underscore
IsWordChar(c) == c \in UpperChars \cup LowerChars \cup DigitChars \cup {"_"}

RECURSIVE LowerStr(_)
LowerStr(s) == IF s = <<>> THEN <<>> ELSE <<LowerChar(Head(s))>> \o LowerStr(Tail(s))

RECURSIVE LStrip(_)
LStrip(s) == IF s # <<>> /\ Head(s) \in SpaceChars THEN LStrip(Tail(s)) ELSE s

RECURSIVE RStrip(_)
RStrip(s) ==
  IF s # <<>> /\ s[Len(s)] \in SpaceChars THEN RStrip(SubSeq(s, 1, Len(s) - 1)) ELSE s

\* str.strip()
Strip(s) == RStrip(LStrip(s))

\* re.sub(r'[^\w]', '', s)
RECURSIVE SubNonWord(_)
SubNonWord(s) ==
  IF s = <<>> THEN <<>>
  ELSE IF IsWordChar(Head(s)) THEN <<Head(s)>> \o SubNonWord(Tail(s))
  ELSE SubNonWord(Tail(s))

\* re.sub(r'[^\w]', '', s, count=1): only the first match is removed
RECURSIVE SubNonWordOnce(_)
SubNonWordOnce(s) ==
  IF s = <<>> THEN <<>>
  ELSE IF IsWordChar(Head(s)) THEN <<Head(s)>> \o SubNonWordOnce(Tail(s))
  ELSE Tail(s)

normalize_text_once(text) == SubNonWordOnce(Strip(LowerStr(text)))

normalize_text(text) == SubNonWord(Strip(LowerStr(text)))

\* ------------------------------------------------------------------- state
VARIABLES
  npc, nin, nout, nout2,           \* normalize_text applied to one string
  pc,                              \* position in the script
  records_dict,                    \* normalised name -> [roll_no, cert_id]
  numPages,                        \* len(images)
  full_extracted_data,             \* one OCR result per processed page
  combined_data,                   \* name, roll_no, cert_id, full_text
  merged,                          \* pages consumed by the combine loop
  name_norm, roll_norm, cert_norm,
  avg_confidence,                  \* exact mean, <<num, den>>
  verdict                          \* status, confidence_score, recommendation, anomalies

vars == <<npc, nin, nout, nout2, pc, records_dict, numPages, full_extracted_data,
          combined_data, merged, name_norm, roll_norm, cert_norm, avg_confidence, verdict>>

normVars == <<npc, nin, nout, nout2>>
pipeVars == <<pc, records_dict, numPages, full_extracted_data, combined_data, merged,
              name_norm, roll_norm, cert_norm, avg_confidence, verdict>>


\* ------------------------------------------------------- exact arithmetic
RECURSIVE GCD(_, _)
GCD(a, b) == IF b = 0 THEN a ELSE GCD(b, a % b)

Frac(n, d) == LET g == GCD(n, d) IN IF g = 0 THEN <<0, 1>> ELSE <<n \div g, d \div g>>

FracAdd(f, g) == Frac(f[1] * g[2] + g[1] * f[2], f[2] * g[2])

RECURSIVE SumInts(_)
SumInts(xs) == IF xs = <<>> THEN 0 ELSE Head(xs) + SumInts(Tail(xs))

RECURSIVE SumFracs(_)
SumFracs(fs) == IF fs = <<>> THEN <<0, 1>> ELSE FracAdd(Head(fs), SumFracs(Tail(fs)))

\* np.mean of a non-empty list of fractions
MeanFracs(fs) == LET t == SumFracs(fs) IN Frac(t[1], t[2] * Len(fs))

\* int(x) of a non-negative value
IntOf(f) == f[1] \div f[2]

FracLess(f, k) == f[1] < k * f[2]
FracGreater(f, k) == f[1] > k * f[2]

Min(a, b) == IF a < b THEN a ELSE b
Max(a, b) == IF a > b THEN a ELSE b

\* dict.get(key, default)
Get(d, key, default) == IF key \in DOMAIN d THEN d[key] ELSE default

\* --------------------------------------------------------------- OCR page
\* [int(conf) for conf in data['conf'] if int(conf) > 0]
RECURSIVE PositiveConfs(_)
PositiveConfs(confs) ==
  IF confs = <<>> THEN <<>>
  ELSE IF Head(confs) > 0 THEN <<Head(confs)>> \o PositiveConfs(Tail(confs))
  ELSE PositiveConfs(Tail(confs))

\* np.mean(confidences) if confidences else 0
OcrConfidence(confs) ==
  LET confidences == PositiveConfs(confs)
  IN IF confidences = <<>> THEN <<0, 1>> ELSE Frac(SumInts(confidences), Len(confidences))

\* the result process_certificate_ocr returns when nothing raises
OcrResult(text, fields, confs) ==
  [extracted_data |-> fields, ocr_confidence |-> OcrConfidence(confs), full_text |-> text]

\* the result of the except branch
ExceptResult ==
  [extracted_data |-> <<>>, ocr_confidence |-> <<0, 1>>, full_text |-> <<>>, error |-> "e"]

\* ---------------------------------------------------------------- combiner
EmptyCombined == [name |-> <<>>, roll_no |-> <<>>, cert_id |-> <<>>, full_text |-> <<>>]

\* a combiner in which a later non-empty value overwrites the field
CombinePageLastWins(cd, page_data) ==
  LET extracted == Get(page_data, "extracted_data", <<>>)
  IN [name |-> IF Get(extracted, "name", <<>>) # <<>> THEN extracted["name"] ELSE cd["name"],
      roll_no |-> IF Get(extracted, "roll_no", <<>>) # <<>>
                  THEN extracted["roll_no"] ELSE cd["roll_no"],
      cert_id |-> IF Get(extracted, "cert_id", <<>>) # <<>>
                  THEN extracted["cert_id"] ELSE cd["cert_id"],
      full_text |-> cd["full_text"] \o Get(page_data, "full_text", <<>>) \o <<"\n">>]

\* one iteration of the loop over full_extracted_data
CombinePage(cd, page_data) ==
  LET extracted == Get(page_data, "extracted_data", <<>>)
      Take(key) == IF Get(extracted, key, <<>>) # <<>> /\ cd[key] = <<>>
                   THEN extracted[key] ELSE cd[key]
  IN [name |-> Take("name"), roll_no |-> Take("roll_no"), cert_id |-> Take("cert_id"),
      full_text |-> cd["full_text"] \o Get(page_data, "full_text", <<>>) \o <<"\n">>]

\* ------------------------------------------------------------ CSV records
\* the dict comprehension over the rows: a later row replaces an earlier one
RECURSIVE BuildRecords(_)
BuildRecords(rows) ==
  IF rows = <<>> THEN <<>>
  ELSE LET n == Len(rows)
           init == BuildRecords(SubSeq(rows, 1, n - 1))
           key == normalize_text(rows[n].name)
           val == [roll_no |-> normalize_text(rows[n].roll_no),
                   cert_id |-> normalize_text(rows[n].cert_id)]
       IN [k \in DOMAIN init \cup {key} |-> IF k = key THEN val ELSE init[k]]

\* ------------------------------------------------------ verification logic
MsgMismatch == "Mismatch in Roll No or Certificate ID"
MsgNotFound == "Name not found in records"
MsgLowConf == "Low OCR confidence - blurry image? Improve scan quality."

\* an average that leaves the pages of the except branch out
RECURSIVE PageConfsSkipFailed(_)
PageConfsSkipFailed(pages) ==
  IF pages = <<>> THEN <<>>
  ELSE IF "error" \in DOMAIN Head(pages) THEN PageConfsSkipFailed(Tail(pages))
  ELSE <<Get(Head(pages), "ocr_confidence", <<0, 1>>)>> \o PageConfsSkipFailed(Tail(pages))

\* np.mean([page.get('ocr_confidence', 0) for page in full_extracted_data])
RECURSIVE PageConfs(_)
PageConfs(pages) ==
  IF pages = <<>> THEN <<>>
  ELSE <<Get(Head(pages), "ocr_confidence", <<0, 1>>)>> \o PageConfs(Tail(pages))

AvgConfidence(pages) == MeanFracs(PageConfs(pages))

\* anomalies = [], confidence_score = int(avg), status, recommendation
StartVerdict(avg) ==
  [status |-> "Valid", confidence_score |-> IntOf(avg),
   recommendation |-> "Proceed with verification.", anomalies |-> <<>>]

\* the branch on records_dict with "and" for "or" in the comparison
MatchBranchAnd(v, records, n, r, c) ==
  IF DOMAIN records # {}
  THEN IF n \in DOMAIN records
       THEN LET db_roll == Get(records[n], "roll_no", <<>>)
                db_cert == Get(records[n], "cert_id", <<>>)
            IN IF r # db_roll /\ c # db_cert
               THEN [status |-> "Caution",
                     confidence_score |-> Min(v.confidence_score, 60),
                     recommendation |-> "Manual review recommended.",
                     anomalies |-> Append(v.anomalies, MsgMismatch)]
               ELSE [status |-> "Valid",
                     confidence_score |-> Max(v.confidence_score, 85),
                     recommendation |-> "Proceed with verification.",
                     anomalies |-> v.anomalies]
       ELSE [status |-> "Forged",
             confidence_score |-> Min(v.confidence_score, 30),
             recommendation |-> "Document appears invalid.",
             anomalies |-> Append(v.anomalies, MsgNotFound)]
  ELSE [v EXCEPT !.status = "OCR Processed"]

\* the branch on records_dict with max for min in the Caution branch
MatchBranchMax(v, records, n, r, c) ==
  IF DOMAIN records # {}
  THEN IF n \in DOMAIN records
       THEN LET db_roll == Get(records[n], "roll_no", <<>>)
                db_cert == Get(records[n], "cert_id", <<>>)
            IN IF r # db_roll \/ c # db_cert
               THEN [status |-> "Caution",
                     confidence_score |-> Max(v.confidence_score, 60),
                     recommendation |-> "Manual review recommended.",
                     anomalies |-> Append(v.anomalies, MsgMismatch)]
               ELSE [status |-> "Valid",
                     confidence_score |-> Max(v.confidence_score, 85),
                     recommendation |-> "Proceed with verification.",
                     anomalies |-> v.anomalies]
       ELSE [status |-> "Forged",
             confidence_score |-> Min(v.confidence_score, 30),
             recommendation |-> "Document appears invalid.",
             anomalies |-> Append(v.anomalies, MsgNotFound)]
  ELSE [v EXCEPT !.status = "OCR Processed"]

\* the branch on records_dict without the assignment of the else branch
MatchBranchNoElse(v, records, n, r, c) ==
  IF DOMAIN records # {}
  THEN IF n \in DOMAIN records
       THEN LET db_roll == Get(records[n], "roll_no", <<>>)
                db_cert == Get(records[n], "cert_id", <<>>)
            IN IF r # db_roll \/ c # db_cert
               THEN [status |-> "Caution",
                     confidence_score |-> Min(v.confidence_score, 60),
                     recommendation |-> "Manual review recommended.",
                     anomalies |-> Append(v.anomalies, MsgMismatch)]
               ELSE [status |-> "Valid",
                     confidence_score |-> Max(v.confidence_score, 85),
                     recommendation |-> "Proceed with verification.",
                     anomalies |-> v.anomalies]
       ELSE [status |-> "Forged",
             confidence_score |-> Min(v.confidence_score, 30),
             recommendation |-> "Document appears invalid.",
             anomalies |-> Append(v.anomalies, MsgNotFound)]
  ELSE v

\* the branch on records_dict
MatchBranch(v, records, n, r, c) ==
  IF DOMAIN records # {}
  THEN IF n \in DOMAIN records
       THEN LET db_roll == Get(records[n], "roll_no", <<>>)
                db_cert == Get(records[n], "cert_id", <<>>)
            IN IF r # db_roll \/ c # db_cert
               THEN [status |-> "Caution",
                     confidence_score |-> Min(v.confidence_score, 60),
                     recommendation |-> "Manual review recommended.",
                     anomalies |-> Append(v.anomalies, MsgMismatch)]
               ELSE [status |-> "Valid",
                     confidence_score |-> Max(v.confidence_score, 85),
                     recommendation |-> "Proceed with verification.",
                     anomalies |-> v.anomalies]
       ELSE [status |-> "Forged",
             confidence_score |-> Min(v.confidence_score, 30),
             recommendation |-> "Document appears invalid.",
             anomalies |-> Append(v.anomalies, MsgNotFound)]
  ELSE [v EXCEPT !.status = "OCR Processed"]

\* the low-confidence step without the cap
LowConfidenceNoCap(v, avg) ==
  IF FracLess(avg, 70)
  THEN [v EXCEPT !.anomalies = Append(@, MsgLowConf)]
  ELSE v

\* if avg_confidence < 70: append the anomaly, cap the score at 30
LowConfidenceCap(v, avg) ==
  IF FracLess(avg, 70)
  THEN [v EXCEPT !.anomalies = Append(@, MsgLowConf),
                 !.confidence_score = Min(@, 30)]
  ELSE v

\* a boost that only raises the score
BoostMax(v, avg) ==
  IF v.anomalies = <<>> /\ FracGreater(avg, 80)
  THEN [v EXCEPT !.confidence_score = Max(@, 95)]
  ELSE v

\* a boost that does not look at the anomalies
BoostAlways(v, avg) ==
  IF FracGreater(avg, 80)
  THEN [v EXCEPT !.confidence_score = 95]
  ELSE v

\* if not anomalies and avg_confidence > 80: confidence_score = 95
Boost(v, avg) ==
  IF v.anomalies = <<>> /\ FracGreater(avg, 80)
  THEN [v EXCEPT !.confidence_score = 95]
  ELSE v


\* ------------------------------------------------------------------ inputs
\* values the three extraction regexes can return (name: letters and spaces,
\* stripped; roll number and certificate id: letters, digits and "/")
PageNames == {<<>>, <<"J", " ", "D">>, <<"A", "b">>}
PageRolls == {<<>>, <<"2", "1", "/", "C">>}
PageCerts == {<<>>, <<"H", "7">>}

PageFields == [name : PageNames, roll_no : PageRolls, cert_id : PageCerts]

NoFields == [name |-> <<>>, roll_no |-> <<>>, cert_id |-> <<>>]

\* data['conf'] as the engine reports it: -1 for boxes that are not words
TokenConfs == {<<>>, <<-1, 0>>, <<60, -1, 80>>, <<100>>}

\* the recognised text is only concatenated, never inspected again
PageTexts == {<<>>, <<"t">>}

\* what the OCR engine can report for a page: no text means no tokens and
\* nothing for the regexes to match
OcrOutcomes ==
  {o \in [text : PageTexts, fields : PageFields, confs : TokenConfs] :
     o.text = <<>> => (o.fields = NoFields /\ o.confs = <<>>)}

Row(n, r, c) == [name |-> n, roll_no |-> r, cert_id |-> c]

\* CSV files with the three required columns
CsvTables ==
  { <<>>,
    << Row(<<"j", "-", "d", " ">>, <<"2", "1", "C">>, <<"H", "-", "7">>) >>,
    << Row(<<"J", "D">>, <<"2", "1", "c">>, <<"h", "7">>),
       Row(<<"A", "B">>, <<"2", "1", "c">>, <<"h", "7">>),
       Row(<<"j", " ", "d">>, <<"2", "1", "c">>, <<"h", "9">>) >>,
    << Row(<<"J", "_", "D">>, <<"2", "1", "C">>, <<"H", "7">>) >> }

RECURSIVE StringsUpTo(_)
StringsUpTo(n) ==
  IF n = 0 THEN {<<>>}
  ELSE LET shorter == StringsUpTo(n - 1)
       IN shorter \cup {Append(s, c) : s \in shorter, c \in {"A", "a", "1", "_", " ", "-"}}

NoVerdict == [status |-> "", confidence_score |-> 0, recommendation |-> "", anomalies |-> <<>>]

\* ------------------------------------------------------------------- init
PipeInit ==
  /\ pc = "csv"
  /\ records_dict = <<>>
  /\ numPages = 0
  /\ full_extracted_data = <<>>
  /\ combined_data = EmptyCombined
  /\ merged = 0
  /\ name_norm = <<>>
  /\ roll_norm = <<>>
  /\ cert_norm = <<>>
  /\ avg_confidence = <<0, 1>>
  /\ verdict = NoVerdict

Init ==
  /\ npc = "idle"
  /\ nin = <<>>
  /\ nout = <<>>
  /\ nout2 = <<>>
  /\ PipeInit

\* ---------------------------------------------------------------- actions
\* a CSV file with the required columns is uploaded
LoadCSV ==
  /\ pc = "csv"
  /\ \E table \in CsvTables : records_dict' = BuildRecords(table)
  /\ pc' = "upload"
  /\ UNCHANGED <<numPages, full_extracted_data, combined_data, merged, name_norm,
                 roll_norm, cert_norm, avg_confidence, verdict>>
  /\ UNCHANGED normVars

\* no CSV file, or one without the required columns: records_dict stays {}
SkipCSV ==
  /\ pc = "csv"
  /\ pc' = "upload"
  /\ UNCHANGED <<records_dict, numPages, full_extracted_data, combined_data, merged,
                 name_norm, roll_norm, cert_norm, avg_confidence, verdict>>
  /\ UNCHANGED normVars

\* the certificate is uploaded and turned into images
UploadCertificate ==
  /\ pc = "upload"
  /\ \E n \in 1..MaxPages : numPages' = n
  /\ pc' = "ocr"
  /\ UNCHANGED <<records_dict, full_extracted_data, combined_data, merged, name_norm,
                 roll_norm, cert_norm, avg_confidence, verdict>>
  /\ UNCHANGED normVars

\* a PDF without pages, or one that cannot be converted: st.stop()
StopNoPages ==
  /\ pc = "upload"
  /\ pc' = "stopped"
  /\ UNCHANGED <<records_dict, numPages, full_extracted_data, combined_data, merged,
                 name_norm, roll_norm, cert_norm, avg_confidence, verdict>>
  /\ UNCHANGED normVars

AfterOcr(pages) == IF Len(pages) = numPages THEN "combine" ELSE "ocr"

\* one iteration of the OCR loop, process_certificate_ocr returns normally
OcrPage ==
  /\ pc = "ocr"
  /\ Len(full_extracted_data) < numPages
  /\ \E o \in OcrOutcomes :
       full_extracted_data' = Append(full_extracted_data, OcrResult(o.text, o.fields, o.confs))
  /\ pc' = AfterOcr(full_extracted_data')
  /\ UNCHANGED <<records_dict, numPages, combined_data, merged, name_norm, roll_norm,
                 cert_norm, avg_confidence, verdict>>
  /\ UNCHANGED normVars

\* one iteration of the OCR loop, preprocessing or the engine raises
OcrPageFails ==
  /\ pc = "ocr"
  /\ Len(full_extracted_data) < numPages
  /\ full_extracted_data' = Append(full_extracted_data, ExceptResult)
  /\ pc' = AfterOcr(full_extracted_data')
  /\ UNCHANGED <<records_dict, numPages, combined_data, merged, name_norm, roll_norm,
                 cert_norm, avg_confidence, verdict>>
  /\ UNCHANGED normVars

\* one iteration of the combine loop
CombineStep ==
  /\ pc = "combine"
  /\ merged < Len(full_extracted_data)
  /\ combined_data' = CombinePage(combined_data, full_extracted_data[merged + 1])
  /\ merged' = merged + 1
  /\ pc' = IF merged' = Len(full_extracted_data) THEN "verify" ELSE "combine"
  /\ UNCHANGED <<records_dict, numPages, full_extracted_data, name_norm, roll_norm,
                 cert_norm, avg_confidence, verdict>>
  /\ UNCHANGED normVars

\* normalise the combined fields and run the verification logic
Verify ==
  /\ pc = "verify"
  /\ name_norm' = normalize_text(Get(combined_data, "name", <<>>))
  /\ roll_norm' = normalize_text(Get(combined_data, "roll_no", <<>>))
  /\ cert_norm' = normalize_text(Get(combined_data, "cert_id", <<>>))
  /\ avg_confidence' = AvgConfidence(full_extracted_data)
  /\ verdict' = Boost(LowConfidenceCap(
                        MatchBranch(StartVerdict(avg_confidence'), records_dict,
                                    name_norm', roll_norm', cert_norm'),
                        avg_confidence'),
                      avg_confidence')
  /\ pc' = "done"
  /\ UNCHANGED <<records_dict, numPages, full_extracted_data, combined_data, merged>>
  /\ UNCHANGED normVars

Next ==
  \/ LoadCSV
  \/ SkipCSV
  \/ UploadCertificate
  \/ StopNoPages
  \/ OcrPage
  \/ OcrPageFails
  \/ CombineStep
  \/ Verify

Spec == Init /\ [][Next]_vars

\* --------------------------------------------- normalize_text on its own
NormInit ==
  /\ npc = "in"
  /\ nin \in StringsUpTo(MaxLen)
  /\ nout = <<>>
  /\ nout2 = <<>>
  /\ PipeInit

\* normalize_text(s)
NormalizeOnce ==
  /\ npc = "in"
  /\ nout' = normalize_text(nin)
  /\ npc' = "once"
  /\ UNCHANGED <<nin, nout2>>
  /\ UNCHANGED pipeVars

\* normalize_text(normalize_text(s))
NormalizeTwice ==
  /\ npc = "once"
  /\ nout2' = normalize_text(nout)
  /\ npc' = "twice"
  /\ UNCHANGED <<nin, nout>>
  /\ UNCHANGED pipeVars

NormNext ==
  \/ NormalizeOnce
  \/ NormalizeTwice

NormSpec == NormInit /\ [][NormNext]_vars


\* ----------------------------------------------------------------- claims
Done == pc = "done"

Found == name_norm \in DOMAIN records_dict

HasRecords == DOMAIN records_dict # {}

\* the status reported when there is no reference data
Unmatched == "OCR Processed"

InSeq(x, xs) == \E i \in 1..Len(xs) : xs[i] = x

LowAvg == avg_confidence[1] < 70 * avg_confidence[2]
HighAvg == avg_confidence[1] > 80 * avg_confidence[2]

Failed(page) == "error" \in DOMAIN page

\* C1: whenever the average OCR confidence is below 70, whatever the mapping
\* and the match outcome, the final anomalies contain the low-confidence
\* message and the final confidence score is at most 30.
C1_LowConfidenceCap ==
  (Done /\ LowAvg) =>
    /\ InSeq(MsgLowConf, verdict.anomalies)
    /\ verdict.confidence_score <= 30

C1_Witness ==
  /\ Done /\ LowAvg /\ HasRecords /\ Found
  /\ verdict.status = "Valid"
  /\ roll_norm = records_dict[name_norm].roll_no
  /\ cert_norm = records_dict[name_norm].cert_id
  /\ verdict.confidence_score = 30

\* C2 as stated: with an empty reference mapping the verdict has the
\* no-reference status and an empty anomaly list, whatever the confidence.
C2_EmptyMappingNoAnomalies ==
  (Done /\ ~HasRecords) =>
    /\ verdict.status = Unmatched
    /\ verdict.anomalies = <<>>

\* C2 amended: with an empty reference mapping the verdict has the
\* no-reference status, and its anomaly list is empty when the average
\* confidence is at least 70 and holds exactly the low-confidence message
\* when it is below 70.
C2_EmptyMappingVerdict ==
  (Done /\ ~HasRecords) =>
    /\ verdict.status = Unmatched
    /\ verdict.anomalies = IF LowAvg THEN <<MsgLowConf>> ELSE <<>>

C2_Witness ==
  /\ Done /\ ~HasRecords /\ LowAvg
  /\ verdict.status = Unmatched
  /\ verdict.anomalies = <<MsgLowConf>>
  /\ combined_data.name # <<>>

\* C3: with a non-empty mapping the status is decided by the normalised
\* fields alone: Forged iff the name is no key, Valid iff it is a key and
\* roll number and certificate id both equal the stored values, Caution iff
\* it is a key and one of them differs.
C3_StatusByNormalizedFields ==
  (Done /\ HasRecords) =>
    /\ name_norm = normalize_text(combined_data.name)
    /\ roll_norm = normalize_text(combined_data.roll_no)
    /\ cert_norm = normalize_text(combined_data.cert_id)
    /\ (verdict.status = "Forged") <=> ~Found
    /\ (verdict.status = "Valid") <=>
         (Found /\ roll_norm = records_dict[name_norm].roll_no
                /\ cert_norm = records_dict[name_norm].cert_id)
    /\ (verdict.status = "Caution") <=>
         (Found /\ (roll_norm # records_dict[name_norm].roll_no
                    \/ cert_norm # records_dict[name_norm].cert_id))

C3_Witness ==
  /\ Done /\ HasRecords /\ Found
  /\ roll_norm = records_dict[name_norm].roll_no
  /\ cert_norm # records_dict[name_norm].cert_id
  /\ verdict.status = "Caution"
  /\ HighAvg

\* C4: a Caution verdict has a score of at most 60 and the mismatch message;
\* a Forged verdict has a score of at most 30 and the not-found message.
C4_CautionForgedBounds ==
  Done =>
    /\ (verdict.status = "Caution") =>
         (verdict.confidence_score <= 60 /\ InSeq(MsgMismatch, verdict.anomalies))
    /\ (verdict.status = "Forged") =>
         (verdict.confidence_score <= 30 /\ InSeq(MsgNotFound, verdict.anomalies))

C4_Witness ==
  /\ Done
  /\ verdict.status = "Caution"
  /\ verdict.confidence_score = 60
  /\ verdict.anomalies = <<MsgMismatch>>

\* C5: with no anomaly collected and an average confidence above 80 the final
\* score is exactly 95, whether the match branch computed less or more; a
\* found record with both fields matching then is Valid with no anomalies.
C5_BoostTo95 ==
  Done =>
    /\ (verdict.anomalies = <<>> /\ HighAvg) => verdict.confidence_score = 95
    /\ (HasRecords /\ Found /\ HighAvg
        /\ roll_norm = records_dict[name_norm].roll_no
        /\ cert_norm = records_dict[name_norm].cert_id) =>
         (verdict.status = "Valid" /\ verdict.confidence_score = 95
          /\ verdict.anomalies = <<>>)

C5_Witness ==
  /\ Done /\ HighAvg
  /\ avg_confidence[1] > 95 * avg_confidence[2]
  /\ verdict.status = "Valid"
  /\ verdict.anomalies = <<>>
  /\ verdict.confidence_score = 95

\* the first non-empty value of a field among the given page results
RECURSIVE FirstNonEmpty(_, _)
FirstNonEmpty(key, pages) ==
  IF pages = <<>> THEN <<>>
  ELSE LET e == Head(pages).extracted_data
           v == IF key \in DOMAIN e THEN e[key] ELSE <<>>
       IN IF v # <<>> THEN v ELSE FirstNonEmpty(key, Tail(pages))

FieldKeys == {"name", "roll_no", "cert_id"}

\* C6: after any prefix of the pages each combined field is the first
\* non-empty page-level value seen so far (empty if none), and a combined
\* field that is non-empty is never changed by a later page.
C6_FirstWins ==
  /\ [](\A key \in FieldKeys :
          combined_data[key] = FirstNonEmpty(key, SubSeq(full_extracted_data, 1, merged)))
  /\ [][\A key \in FieldKeys :
          combined_data[key] # <<>> => combined_data'[key] = combined_data[key]]_vars

C6_Witness ==
  /\ merged >= 2
  /\ full_extracted_data[1].extracted_data # <<>>
  /\ full_extracted_data[2].extracted_data # <<>>
  /\ full_extracted_data[1].extracted_data.name = <<>>
  /\ full_extracted_data[1].extracted_data.cert_id # <<>>
  /\ full_extracted_data[2].extracted_data.name # <<>>
  /\ full_extracted_data[2].extracted_data.cert_id # <<>>
  /\ combined_data.name = full_extracted_data[2].extracted_data.name
  /\ combined_data.cert_id = full_extracted_data[1].extracted_data.cert_id

\* the letters and digits of a string, in order
RECURSIVE KeepAlnum(_)
KeepAlnum(s) ==
  IF s = <<>> THEN <<>>
  ELSE IF Head(s) \in UpperChars \cup LowerChars \cup DigitChars
       THEN <<Head(s)>> \o KeepAlnum(Tail(s))
       ELSE KeepAlnum(Tail(s))

\* C7: normalize returns only lower-case letters and digits: every other
\* character, the underscore included, is removed and the rest keep their
\* order.
C7_OnlyLowerAlnum ==
  (npc # "in") =>
    /\ \A i \in 1..Len(nout) : nout[i] \in LowerChars \cup DigitChars
    /\ nout = KeepAlnum(LowerStr(nin))

\* C8: normalize(normalize(s)) = normalize(s).
C8_Idempotent == (npc = "twice") => nout2 = nout

C8_Witness ==
  /\ npc = "twice"
  /\ Len(nin) = MaxLen
  /\ nout # nin
  /\ nout # <<>>
  /\ nout2 = nout

\* the result of a page on which the engine recognises nothing
EmptyPage == [extracted_data |-> NoFields, ocr_confidence |-> <<0, 1>>, full_text |-> <<>>]

AsEmptyPages(pages) == [i \in 1..Len(pages) |-> IF Failed(pages[i]) THEN EmptyPage ELSE pages[i]]

RECURSIVE CombineAll(_)
CombineAll(pages) ==
  IF pages = <<>> THEN EmptyCombined
  ELSE CombinePage(CombineAll(SubSeq(pages, 1, Len(pages) - 1)), pages[Len(pages)])

VerdictOf(pages, records) ==
  LET cd == CombineAll(pages)
      avg == AvgConfidence(pages)
  IN Boost(LowConfidenceCap(
             MatchBranch(StartVerdict(avg), records, normalize_text(cd.name),
                         normalize_text(cd.roll_no), normalize_text(cd.cert_id)),
             avg), avg)

\* the sum of the confidences of the pages that did not fail
RECURSIVE OkConfSum(_)
OkConfSum(pages) ==
  IF pages = <<>> THEN <<0, 1>>
  ELSE IF Failed(Head(pages)) THEN OkConfSum(Tail(pages))
  ELSE FracAdd(Head(pages).ocr_confidence, OkConfSum(Tail(pages)))

\* C9: a page whose preprocessing or OCR fails contributes no field values,
\* empty text and confidence 0; it counts as one page in the average; the
\* combined record and the verdict are those of the same document with the
\* failing pages replaced by empty pages; and the run still ends in a verdict:
\* every state of the OCR, combine and verify phases satisfies the guard of
\* its next step, and the verdict reached has one of the four statuses.
C9_FailedPageAbsorbed ==
  /\ \A i \in 1..Len(full_extracted_data) :
       Failed(full_extracted_data[i]) =>
         /\ full_extracted_data[i].extracted_data = <<>>
         /\ full_extracted_data[i].full_text = <<>>
         /\ full_extracted_data[i].ocr_confidence = <<0, 1>>
  /\ (pc = "ocr") => Len(full_extracted_data) < numPages
  /\ (pc = "combine") => (Len(full_extracted_data) = numPages /\ merged < numPages)
  /\ (pc = "verify") => (merged = numPages /\ numPages >= 1)
  /\ Done =>
       /\ Len(full_extracted_data) = numPages
       /\ LET t == OkConfSum(full_extracted_data)
          IN avg_confidence[1] * t[2] * numPages = t[1] * avg_confidence[2]
       /\ combined_data = CombineAll(AsEmptyPages(full_extracted_data))
       /\ verdict = VerdictOf(AsEmptyPages(full_extracted_data), records_dict)
       /\ verdict.status \in {"Valid", "Caution", "Forged", Unmatched}

C9_Witness ==
  /\ Done
  /\ numPages = 2
  /\ Failed(full_extracted_data[1])
  /\ ~Failed(full_extracted_data[2])
  /\ full_extracted_data[2].ocr_confidence = <<100, 1>>
  /\ avg_confidence = <<50, 1>>
  /\ combined_data.name # <<>>
  /\ verdict.status = "Forged"

\* C10: the final confidence score is an integer in 0..95, and a verdict
\* with a non-empty anomaly list never has a score above 60.
C10_ScoreRange ==
  Done =>
    /\ verdict.confidence_score \in 0..95
    /\ (verdict.anomalies # <<>>) => verdict.confidence_score <= 60

C10_Witness ==
  /\ Done
  /\ HasRecords
  /\ HighAvg
  /\ Len(verdict.anomalies) = 1
  /\ verdict.confidence_score = 30

====
